---- MODULE Spec2Model ----
(***************************************************************************)
(* valuemap: a generic map guarded by a sync.RWMutex.                      *)
(*                                                                         *)
(* src/vm.go is the internally guarded variant: every ValueMap embeds its  *)
(* own RWMutex and every method takes it.  The model keeps the heap of map *)
(* objects explicit (m.data is a reference), the state of every RWMutex,   *)
(* and one call frame per goroutine.  Every method is split at its lock    *)
(* operations and at every iteration of its range loop, so that goroutines *)
(* interleave exactly where the Go scheduler may interleave them.          *)
(***************************************************************************)
EXTENDS Integers, Sequences, FiniteSets, TLC

\* Keys are 1..MaxKey, values 0..MaxVal (0 is the zero value of V = int).
MaxKey == 2
MaxVal == 1
\* ValueMap objects that may ever be constructed.
MaxInst == 3

Keys == 1..MaxKey
Vals == 0..MaxVal
Inst == 1..MaxInst
\* Goroutines.  The scenarios below use one, two or four of them.
Threads == {1, 2, 3, 4}
\* Map objects: one per ValueMap, one local map per goroutine, one of the caller.
Addr == 1..(MaxInst + Cardinality(Threads) + 1)

VARIABLES
    data,   \* data[i]: the map object m.data refers to, 0 while ValueMap i is not constructed
    heap,   \* heap[a]: the contents of map object a
    mu,     \* mu[i]: the RWMutex embedded in ValueMap i
    th,     \* th[t]: the call frame of goroutine t
    own,    \* the map object the caller holds in a variable of its own (0: none)
    last,   \* observer: per instance and key, the most recent completed Set or Delete
    pre,    \* observer: the tables as they were when the call in progress was made
    clones, \* observer: the pairs <<m, c>> with c a result of m.Clone()
    fresh,  \* observer: the pairs of clones of which neither side was written since
    wiped,  \* observer: <<i, n>> for i cleared when it held n entries, and not written since
    sets    \* observer: <<t, k, v>> for the call Set(k, v) goroutine t has made

vars == <<data, heap, mu, th, own, last, pre, clones, fresh, wiped, sets>>
observers == <<last, pre, clones, fresh, wiped, sets>>

----------------------------------------------------------------------------
\* Go's built-in map[K]V, as a function from the keys present to their values.

EmptyMap == <<>>

Tables == UNION {[S -> Vals] : S \in SUBSET Keys}

\* v, ok := tbl[k]
Has(tbl, k) == k \in DOMAIN tbl
Lookup(tbl, k) == IF k \in DOMAIN tbl THEN tbl[k] ELSE 0
GetResult(tbl, k) == <<Lookup(tbl, k), Has(tbl, k)>>

\* tbl[k] = v
MapAssign(tbl, k, v) == [x \in DOMAIN tbl \cup {k} |-> IF x = k THEN v ELSE tbl[x]]

\* delete(tbl, k)
MapDeleteNone(tbl, k) == tbl
MapDelete(tbl, k) == [x \in DOMAIN tbl \ {k} |-> tbl[x]]

\* len(tbl)
MapLen(tbl) == Cardinality(DOMAIN tbl)

\* reflect.DeepEqual on two values of V = int
DeepEqual(v, ov) == v = ov

----------------------------------------------------------------------------
\* The heap.

\* The ValueMaps goroutines can call: constructed, and returned to the caller.
Live == {i \in Inst : data[i] # 0 /\ \A t \in Threads : th[t].res # i}

\* The table of a constructed ValueMap.
Tbl(i) == heap[data[i]]

Refs(d, f) == ({d[i] : i \in Inst} \cup {f[t].cp : t \in Threads} \cup {own}) \ {0}

\* make(map[K]V): the lowest map object nothing refers to.
FreshAddr(d, f) == CHOOSE a \in Addr \ Refs(d, f) : \A b \in Addr \ Refs(d, f) : a <= b

\* Map objects nothing refers to any more are collected.
Sweep(h, d, f) == [a \in Addr |-> IF a \in Refs(d, f) THEN h[a] ELSE EmptyMap]

\* &ValueMap{...}: the lowest slot that is neither constructed nor promised to a Clone.
FreeInst == {i \in Inst : data[i] = 0 /\ \A t \in Threads : th[t].res # i}
FreshInst == CHOOSE i \in FreeInst : \A j \in FreeInst : i <= j

----------------------------------------------------------------------------
\* Call frames.

Frame0 ==
    [op |-> "none", pc |-> "idle", m |-> 0, other |-> 0, key |-> 0, value |-> 0,
     it |-> {}, cp |-> 0, v |-> 0, ok |-> FALSE, n |-> 0, out |-> <<>>, res |-> 0, eq |-> FALSE,
     g |-> 0]

Idle(t) == th[t].pc = "idle"
At(t, op, pc) == th[t].op = op /\ th[t].pc = pc

ReaderOps == {"Get", "Clone", "Keys", "Values", "Len", "Raw"}
WriterOps == {"Set", "Delete", "Clear"}
\* Between the return of the last lock call and the first deferred unlock of a method.
Inside == {"body", "loop", "unlock"}

\* Goroutine u holds the read lock of ValueMap i (it is in a section that reads i).
Reads(u, i) ==
    \/ th[u].op \in ReaderOps /\ th[u].m = i /\ th[u].pc \in Inside
    \/ th[u].op = "Merge" /\ th[u].other = i
         /\ th[u].pc \in {"lock", "wait", "body", "loop", "unlock", "unlock2"}
    \/ th[u].op = "Equal" /\ th[u].m = i
         /\ th[u].pc \in {"rlock2", "body", "loop", "unlock", "unlock2"}
    \/ th[u].op = "Equal" /\ th[u].other = i /\ th[u].pc \in Inside

\* Goroutine u holds the write lock of ValueMap i (it is in a section that writes i).
Writes(u, i) ==
    th[u].op \in WriterOps \cup {"Merge"} /\ th[u].m = i /\ th[u].pc \in Inside

\* A data race is undefined behaviour: a read that races with a write may see any
\* table, and a write that races with another access may leave any table.
View(t, i) ==
    IF \E u \in Threads \ {t} : Writes(u, i) THEN Tables ELSE {Tbl(i)}
Stored(t, i, new) ==
    IF \E u \in Threads \ {t} : Writes(u, i) \/ Reads(u, i) THEN Tables ELSE {new}

----------------------------------------------------------------------------
\* sync.RWMutex: r counts the readers holding it, w is the goroutine that has
\* called Lock and has not yet unlocked (0: none).  A goroutine in Lock first
\* takes the writer slot, which turns new readers away, and then waits for the
\* readers that hold the lock to leave.

Mutex0 == [r |-> 0, w |-> 0]

CanRLockFree(i) == TRUE
CanRLock(i) == mu[i].w = 0

CanLockFree(i) == TRUE
CanLock(i) == mu[i].w = 0

DrainedFree(i) == TRUE
Drained(i) == mu[i].r = 0

\* mu.RLock()
RLock(t, i, next) ==
    /\ CanRLock(i)
    /\ mu' = [mu EXCEPT ![i].r = @ + 1]
    /\ th' = [th EXCEPT ![t].pc = next]
    /\ UNCHANGED <<data, heap>>

\* mu.Lock(), first half: take the writer slot
LockEnter(t, i, next) ==
    /\ CanLock(i)
    /\ mu' = [mu EXCEPT ![i].w = t]
    /\ th' = [th EXCEPT ![t].pc = next]
    /\ UNCHANGED <<data, heap>>

\* mu.Lock(), second half: wait until the readers have left
LockDrain(t, i, next) ==
    /\ Drained(i)
    /\ th' = [th EXCEPT ![t].pc = next]
    /\ UNCHANGED <<data, heap, mu>>

\* mu.RUnlock()
RUnlock(t, i, next) ==
    /\ mu' = [mu EXCEPT ![i].r = @ - 1]
    /\ th' = [th EXCEPT ![t].pc = next]
    /\ UNCHANGED <<data, heap>>

\* mu.Unlock()
Unlock(t, i, next) ==
    /\ mu' = [mu EXCEPT ![i].w = 0]
    /\ th' = [th EXCEPT ![t].pc = next]
    /\ UNCHANGED <<data, heap>>

\* The last deferred mu.RUnlock() of a method, and its return: the frame is
\* dropped, and with it a local map the caller does not keep.
RUnlockReturn(t, i) ==
    /\ mu' = [mu EXCEPT ![i].r = @ - 1]
    /\ th' = [th EXCEPT ![t] = Frame0]
    /\ heap' = Sweep(heap, data, th')
    /\ UNCHANGED data

\* The last deferred mu.Unlock() of a method, and its return.
UnlockReturn(t, i) ==
    /\ mu' = [mu EXCEPT ![i].w = 0]
    /\ th' = [th EXCEPT ![t] = Frame0]
    /\ UNCHANGED <<data, heap>>

\* A call by an idle goroutine whose first statement is i.mu.RLock(): the call
\* and the lock operation are one step (a goroutine waiting there has done nothing yet).
CallRLock(t, i, frame) ==
    /\ Idle(t)
    /\ CanRLock(i)
    /\ mu' = [mu EXCEPT ![i].r = @ + 1]
    /\ th' = [th EXCEPT ![t] = frame]
    /\ UNCHANGED <<data, heap>>

\* A call by an idle goroutine whose first statement is i.mu.Lock(): the call and
\* the first half of Lock are one step.
CallLock(t, i, frame) ==
    /\ Idle(t)
    /\ CanLock(i)
    /\ mu' = [mu EXCEPT ![i].w = t]
    /\ th' = [th EXCEPT ![t] = frame]
    /\ UNCHANGED <<data, heap>>

----------------------------------------------------------------------------
\* func New() *ValueMap

New ==
    /\ FreeInst # {}
    /\ LET a == FreshAddr(data, th) IN
         /\ data' = [data EXCEPT ![FreshInst] = a]
         /\ heap' = [heap EXCEPT ![a] = EmptyMap]
    /\ UNCHANGED <<mu, th>>

----------------------------------------------------------------------------
\* func (m *ValueMap) Set(key K, value V)

SetLockOn(t, m, k, v) ==
    CallLock(t, m, [Frame0 EXCEPT !.op = "Set", !.pc = "wait", !.m = m, !.key = k, !.value = v])

SetLock(t) == \E m \in Live, k \in Keys, v \in Vals : SetLockOn(t, m, k, v)

SetLocked(t) == At(t, "Set", "wait") /\ LockDrain(t, th[t].m, "body")

SetStore(t) ==
    /\ At(t, "Set", "body")
    /\ \E new \in Stored(t, th[t].m, MapAssign(Tbl(th[t].m), th[t].key, th[t].value)) :
         heap' = [heap EXCEPT ![data[th[t].m]] = new]
    /\ th' = [th EXCEPT ![t].pc = "unlock"]
    /\ UNCHANGED <<data, mu>>

SetUnlock(t) == At(t, "Set", "unlock") /\ UnlockReturn(t, th[t].m)

----------------------------------------------------------------------------
\* func (m *ValueMap) Get(key K) (V, bool)

GetRLock(t) ==
    \E m \in Live, k \in Keys :
        CallRLock(t, m, [Frame0 EXCEPT !.op = "Get", !.pc = "body", !.m = m, !.key = k])

GetLoadInsert(t) ==
    /\ At(t, "Get", "body")
    /\ th' = [th EXCEPT ![t].v = Lookup(Tbl(th[t].m), th[t].key),
                        ![t].ok = Has(Tbl(th[t].m), th[t].key),
                        ![t].pc = "unlock"]
    /\ heap' = [heap EXCEPT ![data[th[t].m]] = MapAssign(@, th[t].key, Lookup(@, th[t].key))]
    /\ UNCHANGED <<data, mu>>

GetLoad(t) ==
    /\ At(t, "Get", "body")
    /\ \E tbl \in View(t, th[t].m) :
         th' = [th EXCEPT ![t].v = Lookup(tbl, th[t].key),
                          ![t].ok = Has(tbl, th[t].key),
                          ![t].pc = "unlock"]
    /\ UNCHANGED <<data, heap, mu>>

GetRUnlock(t) == At(t, "Get", "unlock") /\ RUnlockReturn(t, th[t].m)

----------------------------------------------------------------------------
\* func (m *ValueMap) Delete(key K)

DeleteLock(t) ==
    \E m \in Live, k \in Keys :
        CallLock(t, m, [Frame0 EXCEPT !.op = "Delete", !.pc = "wait", !.m = m, !.key = k])

DeleteLocked(t) == At(t, "Delete", "wait") /\ LockDrain(t, th[t].m, "body")

DeleteKey(t) ==
    /\ At(t, "Delete", "body")
    /\ \E new \in Stored(t, th[t].m, MapDelete(Tbl(th[t].m), th[t].key)) :
         heap' = [heap EXCEPT ![data[th[t].m]] = new]
    /\ th' = [th EXCEPT ![t].pc = "unlock"]
    /\ UNCHANGED <<data, mu>>

DeleteUnlock(t) == At(t, "Delete", "unlock") /\ UnlockReturn(t, th[t].m)

----------------------------------------------------------------------------
\* func (m *ValueMap) Clone() *ValueMap

CloneRLock(t) ==
    /\ FreeInst # {}
    /\ \E m \in Live :
         CallRLock(t, m, [Frame0 EXCEPT !.op = "Clone", !.pc = "body", !.m = m, !.res = FreshInst])

\* cp := make(map[K]V, len(m.data)), and the range expression of the loop
CloneShared(t) == data[th[t].m]
CloneTarget(t) == FreshAddr(data, th)

CloneMake(t) ==
    /\ At(t, "Clone", "body")
    /\ \E tbl \in View(t, th[t].m) :
         th' = [th EXCEPT ![t].cp = CloneTarget(t), ![t].it = DOMAIN tbl, ![t].pc = "loop"]
    /\ heap' = IF CloneTarget(t) \in Refs(data, th)
               THEN heap ELSE [heap EXCEPT ![CloneTarget(t)] = EmptyMap]
    /\ UNCHANGED <<data, mu>>

\* cp[k] = v
CloneCopy(t) ==
    /\ At(t, "Clone", "loop")
    /\ \E k \in th[t].it, tbl \in View(t, th[t].m) :
         /\ heap' = [heap EXCEPT ![th[t].cp] = MapAssign(@, k, Lookup(tbl, k))]
         /\ th' = [th EXCEPT ![t].it = @ \ {k}]
    /\ UNCHANGED <<data, mu>>

\* return &ValueMap{data: cp}
CloneReturn(t) ==
    /\ At(t, "Clone", "loop")
    /\ th[t].it = {}
    /\ data' = [data EXCEPT ![th[t].res] = th[t].cp]
    /\ th' = [th EXCEPT ![t].pc = "unlock", ![t].cp = 0]
    /\ UNCHANGED <<heap, mu>>

CloneRUnlock(t) == At(t, "Clone", "unlock") /\ RUnlockReturn(t, th[t].m)

\* The same, called as a statement: the caller drops the clone at once.
CloneRUnlockDrop(t) ==
    /\ At(t, "Clone", "unlock")
    /\ mu' = [mu EXCEPT ![th[t].m].r = @ - 1]
    /\ th' = [th EXCEPT ![t] = Frame0]
    /\ data' = [data EXCEPT ![th[t].res] = 0]
    /\ heap' = Sweep(heap, data', th')

----------------------------------------------------------------------------
\* func (m *ValueMap) Merge(other *ValueMap)

MergeRLockOn(t, m, other) ==
    CallRLock(t, other, [Frame0 EXCEPT !.op = "Merge", !.pc = "lock", !.m = m, !.other = other])

MergeRLock(t) == \E m \in Live, other \in Live : MergeRLockOn(t, m, other)

MergeLock(t) == At(t, "Merge", "lock") /\ LockEnter(t, th[t].m, "wait")

MergeLocked(t) == At(t, "Merge", "wait") /\ LockDrain(t, th[t].m, "body")

\* for k, v := range other.data
MergeRange(t) ==
    /\ At(t, "Merge", "body")
    /\ \E tbl \in View(t, th[t].other) :
         th' = [th EXCEPT ![t].it = DOMAIN tbl, ![t].pc = "loop"]
    /\ UNCHANGED <<data, heap, mu>>

\* m.data[k] = v, for the entry k, v of other.data
MergeEntryKeep(tbl, otbl, k) == IF Has(tbl, k) THEN tbl ELSE MapAssign(tbl, k, Lookup(otbl, k))
MergeEntry(tbl, otbl, k) == MapAssign(tbl, k, Lookup(otbl, k))

MergeAlias(t) ==
    /\ At(t, "Merge", "loop")
    /\ th[t].it # {}
    /\ data' = [data EXCEPT ![th[t].m] = data[th[t].other]]
    /\ th' = [th EXCEPT ![t].it = {}]
    /\ UNCHANGED <<heap, mu>>

MergeCopy(t) ==
    /\ At(t, "Merge", "loop")
    /\ \E k \in th[t].it, tbl \in View(t, th[t].other) :
         /\ \E new \in Stored(t, th[t].m, MergeEntry(Tbl(th[t].m), tbl, k)) :
              heap' = [heap EXCEPT ![data[th[t].m]] = new]
         /\ th' = [th EXCEPT ![t].it = @ \ {k}]
    /\ UNCHANGED <<data, mu>>

\* the deferred calls run last in, first out
MergeUnlock(t) ==
    /\ At(t, "Merge", "loop")
    /\ th[t].it = {}
    /\ Unlock(t, th[t].m, "unlock2")

MergeRUnlock(t) == At(t, "Merge", "unlock2") /\ RUnlockReturn(t, th[t].other)

----------------------------------------------------------------------------
\* func (m *ValueMap) Equal(other *ValueMap) bool

EqualRLockOn(t, m, other) ==
    CallRLock(t, m, [Frame0 EXCEPT !.op = "Equal", !.pc = "rlock2", !.m = m, !.other = other])

EqualRLock(t) == \E m \in Live, other \in Live : EqualRLockOn(t, m, other)

EqualSkipOther(t) ==
    /\ At(t, "Equal", "rlock2")
    /\ th' = [th EXCEPT ![t].pc = "body"]
    /\ UNCHANGED <<data, heap, mu>>

EqualRLockOther(t) == At(t, "Equal", "rlock2") /\ RLock(t, th[t].other, "body")

\* if len(m.data) != len(other.data) { return false }
LenDiffersNever(tbl, otbl) == FALSE
LenDiffers(tbl, otbl) == MapLen(tbl) # MapLen(otbl)

EqualLen(t) ==
    /\ At(t, "Equal", "body")
    /\ \E tbl \in View(t, th[t].m), otbl \in View(t, th[t].other) :
         th' = IF LenDiffers(tbl, otbl)
               THEN [th EXCEPT ![t].eq = FALSE, ![t].pc = "unlock"]
               ELSE [th EXCEPT ![t].it = DOMAIN tbl, ![t].pc = "loop"]
    /\ UNCHANGED <<data, heap, mu>>

\* ov, ok := other.data[k]; if !ok || !reflect.DeepEqual(v, ov) { return false }
EqualCompare(t) ==
    /\ At(t, "Equal", "loop")
    /\ \E k \in th[t].it, tbl \in View(t, th[t].m), otbl \in View(t, th[t].other) :
         th' = IF ~Has(otbl, k) \/ ~DeepEqual(Lookup(tbl, k), Lookup(otbl, k))
               THEN [th EXCEPT ![t].eq = FALSE, ![t].it = {}, ![t].pc = "unlock"]
               ELSE [th EXCEPT ![t].it = @ \ {k}]
    /\ UNCHANGED <<data, heap, mu>>

\* return true
EqualTrue(t) ==
    /\ At(t, "Equal", "loop")
    /\ th[t].it = {}
    /\ th' = [th EXCEPT ![t].eq = TRUE, ![t].pc = "unlock"]
    /\ UNCHANGED <<data, heap, mu>>

EqualLeaveOther(t) ==
    /\ At(t, "Equal", "unlock")
    /\ th' = [th EXCEPT ![t].pc = "unlock2"]
    /\ UNCHANGED <<data, heap, mu>>

EqualRUnlockOther(t) == At(t, "Equal", "unlock") /\ RUnlock(t, th[t].other, "unlock2")

EqualRUnlock(t) == At(t, "Equal", "unlock2") /\ RUnlockReturn(t, th[t].m)

----------------------------------------------------------------------------
\* func (m *ValueMap) Keys() []K

KeysRLock(t) ==
    \E m \in Live : CallRLock(t, m, [Frame0 EXCEPT !.op = "Keys", !.pc = "body", !.m = m])

\* keys := make([]K, 0, len(m.data)), and the range expression of the loop
KeysMake(t) ==
    /\ At(t, "Keys", "body")
    /\ \E tbl \in View(t, th[t].m) :
         th' = [th EXCEPT ![t].out = <<>>, ![t].it = DOMAIN tbl, ![t].pc = "loop"]
    /\ UNCHANGED <<data, heap, mu>>

\* keys = append(keys, k)
KeysAppendTwice(t) ==
    /\ At(t, "Keys", "loop")
    /\ \E k \in th[t].it :
         th' = [th EXCEPT ![t].out = Append(Append(@, k), k), ![t].it = @ \ {k}]
    /\ UNCHANGED <<data, heap, mu>>

KeysAppend(t) ==
    /\ At(t, "Keys", "loop")
    /\ \E k \in th[t].it :
         th' = [th EXCEPT ![t].out = Append(@, k), ![t].it = @ \ {k}]
    /\ UNCHANGED <<data, heap, mu>>

KeysRUnlock(t) ==
    /\ At(t, "Keys", "loop")
    /\ th[t].it = {}
    /\ RUnlockReturn(t, th[t].m)

----------------------------------------------------------------------------
\* func (m *ValueMap) Values() []V

ValuesRLock(t) ==
    \E m \in Live : CallRLock(t, m, [Frame0 EXCEPT !.op = "Values", !.pc = "body", !.m = m])

\* values := make([]V, 0, len(m.data)), and the range expression of the loop
ValuesMake(t) ==
    /\ At(t, "Values", "body")
    /\ \E tbl \in View(t, th[t].m) :
         th' = [th EXCEPT ![t].out = <<>>, ![t].it = DOMAIN tbl, ![t].pc = "loop"]
    /\ UNCHANGED <<data, heap, mu>>

\* values = append(values, v)
ValuesAppend(t) ==
    /\ At(t, "Values", "loop")
    /\ \E k \in th[t].it, tbl \in View(t, th[t].m) :
         th' = [th EXCEPT ![t].out = Append(@, Lookup(tbl, k)), ![t].it = @ \ {k}]
    /\ UNCHANGED <<data, heap, mu>>

ValuesRUnlock(t) ==
    /\ At(t, "Values", "loop")
    /\ th[t].it = {}
    /\ RUnlockReturn(t, th[t].m)

----------------------------------------------------------------------------
\* func (m *ValueMap) Len() int

LenRLock(t) ==
    \E m \in Live : CallRLock(t, m, [Frame0 EXCEPT !.op = "Len", !.pc = "body", !.m = m])

LenRead(t) ==
    /\ At(t, "Len", "body")
    /\ \E tbl \in View(t, th[t].m) :
         th' = [th EXCEPT ![t].n = MapLen(tbl), ![t].pc = "unlock"]
    /\ UNCHANGED <<data, heap, mu>>

LenRUnlock(t) == At(t, "Len", "unlock") /\ RUnlockReturn(t, th[t].m)

----------------------------------------------------------------------------
\* func (m *ValueMap) Clear()

ClearLock(t) ==
    \E m \in Live : CallLock(t, m, [Frame0 EXCEPT !.op = "Clear", !.pc = "wait", !.m = m])

ClearLocked(t) == At(t, "Clear", "wait") /\ LockDrain(t, th[t].m, "body")

\* m.data = make(map[K]V): a new map object; the old one is garbage unless shared
ClearSkip(t) ==
    /\ At(t, "Clear", "body")
    /\ th' = [th EXCEPT ![t].pc = "unlock"]
    /\ UNCHANGED <<data, heap, mu>>

ClearMake(t) ==
    /\ At(t, "Clear", "body")
    /\ LET m == th[t].m
           a == FreshAddr([data EXCEPT ![m] = 0], th)
       IN /\ data' = [data EXCEPT ![m] = a]
          /\ \E new \in Stored(t, m, EmptyMap) :
               heap' = Sweep([heap EXCEPT ![a] = new], data', th)
    /\ th' = [th EXCEPT ![t].pc = "unlock"]
    /\ UNCHANGED mu

ClearUnlock(t) == At(t, "Clear", "unlock") /\ UnlockReturn(t, th[t].m)

----------------------------------------------------------------------------
\* func (m *ValueMap) Raw() map[K]V

RawRLock(t) ==
    \E m \in Live : CallRLock(t, m, [Frame0 EXCEPT !.op = "Raw", !.pc = "body", !.m = m])

\* cp := make(map[K]V, len(m.data)), and the range expression of the loop
RawMake(t) ==
    /\ At(t, "Raw", "body")
    /\ \E tbl \in View(t, th[t].m) :
         th' = [th EXCEPT ![t].cp = FreshAddr(data, th), ![t].it = DOMAIN tbl, ![t].pc = "loop"]
    /\ heap' = [heap EXCEPT ![FreshAddr(data, th)] = EmptyMap]
    /\ UNCHANGED <<data, mu>>

\* cp[k] = v
RawCopy(t) ==
    /\ At(t, "Raw", "loop")
    /\ \E k \in th[t].it, tbl \in View(t, th[t].m) :
         /\ heap' = [heap EXCEPT ![th[t].cp] = MapAssign(@, k, Lookup(tbl, k))]
         /\ th' = [th EXCEPT ![t].it = @ \ {k}]
    /\ UNCHANGED <<data, mu>>

\* return cp, then the deferred RUnlock; the caller keeps cp until its next call
RawRUnlock(t) ==
    /\ At(t, "Raw", "loop")
    /\ th[t].it = {}
    /\ RUnlockReturn(t, th[t].m)

----------------------------------------------------------------------------
\* func FromMap(m map[K]V) *ValueMap, and the caller's own map.

\* for k, v := range src { dst[k] = v }
RECURSIVE CopyInto(_, _, _)
CopyInto(dst, src, ks) ==
    IF ks = {} THEN dst
    ELSE LET k == CHOOSE x \in ks : TRUE
         IN CopyInto(MapAssign(dst, k, src[k]), src, ks \ {k})

\* cp := make(map[K]V, len(m))
FromMapShared == own
FromMapTarget == FreshAddr(data, th)

\* The caller passes the map it holds.  FromMap takes no lock.
FromMap(t) ==
    /\ Idle(t)
    /\ own # 0
    /\ FreeInst # {}
    /\ data' = [data EXCEPT ![FreshInst] = FromMapTarget]
    /\ heap' = [heap EXCEPT ![FromMapTarget] = CopyInto(EmptyMap, heap[own], DOMAIN heap[own])]
    /\ UNCHANGED <<mu, th, own>>

\* The caller, between two calls: src := make(map[K]V)
OwnMake(t) ==
    /\ Idle(t)
    /\ own = 0
    /\ own' = FreshAddr(data, th)
    /\ heap' = [heap EXCEPT ![FreshAddr(data, th)] = EmptyMap]
    /\ UNCHANGED <<data, mu, th>>

\* The caller writes the map it holds: src[k] = v, r[k] = v
OwnAssign(t) ==
    /\ Idle(t)
    /\ own # 0
    /\ \E k \in Keys, v \in Vals : heap' = [heap EXCEPT ![own] = MapAssign(@, k, v)]
    /\ UNCHANGED <<data, mu, th, own>>

\* delete(src, k), delete(r, k)
OwnDelete(t) ==
    /\ Idle(t)
    /\ own # 0
    /\ \E k \in Keys : heap' = [heap EXCEPT ![own] = MapDelete(@, k)]
    /\ UNCHANGED <<data, mu, th, own>>

\* r := m.Raw(): return cp, then the deferred RUnlock; the caller keeps cp in
\* place of the map it held.
RawRUnlockKeep(t) ==
    /\ At(t, "Raw", "loop")
    /\ th[t].it = {}
    /\ mu' = [mu EXCEPT ![th[t].m].r = @ - 1]
    /\ th' = [th EXCEPT ![t] = Frame0]
    /\ own' = th[t].cp
    /\ heap' = [a \in Addr |-> IF a \in {data[i] : i \in Inst} \cup {th[t].cp}
                               THEN heap[a] ELSE EmptyMap]
    /\ UNCHANGED data

----------------------------------------------------------------------------
(***************************************************************************)
(* src/valuemap.go is the externally guarded variant: a ValueMap is the    *)
(* map alone, and every method takes the RWMutex to use as its first       *)
(* argument.  mu[g] is then the caller's RWMutex g, th[t].g the one passed *)
(* to the call in progress, and the op of a frame ends in "Mu".            *)
(***************************************************************************)

\* The RWMutexes the callers have.
MaxGuard == 2
Guards == 1..MaxGuard

\* Between the return of the lock call and the deferred unlock, goroutine u
\* reads, or writes, the table of ValueMap i.
ReadsMu(u, i) ==
    /\ th[u].pc \in Inside
    /\ \/ th[u].op \in {"GetMu", "CloneMu", "KeysMu", "ValuesMu", "LenMu", "RawMu"} /\ th[u].m = i
       \/ th[u].op = "MergeMu" /\ th[u].other = i

WritesMu(u, i) ==
    /\ th[u].pc \in Inside
    /\ th[u].op \in {"SetMu", "DeleteMu", "ClearMu", "MergeMu"} /\ th[u].m = i

\* Nothing in the methods orders two calls that pass different guards: a read
\* that races with a write may see any table, a write that races with another
\* access may leave any table, and the runtime may stop the program instead
\* ("fatal error: concurrent map read and map write").
ViewMu(t, i) ==
    IF \E u \in Threads \ {t} : WritesMu(u, i) THEN Tables ELSE {Tbl(i)}
StoredMu(t, i, new) ==
    IF \E u \in Threads \ {t} : WritesMu(u, i) \/ ReadsMu(u, i) THEN Tables ELSE {new}

Raced(t) ==
    \E i \in Inst, u \in Threads \ {t} :
        \/ (ReadsMu(t, i) \/ WritesMu(t, i)) /\ WritesMu(u, i)
        \/ WritesMu(t, i) /\ ReadsMu(u, i)

Running == \A t \in Threads : th[t].pc # "fatal"
AtMu(t, op, pc) == Running /\ At(t, op, pc)

RaceFatal(t) ==
    /\ Running
    /\ th[t].g # 0
    /\ th[t].pc \in {"body", "loop"}
    /\ Raced(t)
    /\ th' = [th EXCEPT ![t].pc = "fatal"]
    /\ UNCHANGED <<data, heap, mu>>

\* func (m *ValueMap) Set(mu *sync.RWMutex, key K, value V)
SetMuLockOn(t, g, m, k, v) ==
    /\ Running
    /\ CallLock(t, g, [Frame0 EXCEPT !.op = "SetMu", !.pc = "wait", !.g = g,
                                     !.m = m, !.key = k, !.value = v])

SetMuLocked(t) == AtMu(t, "SetMu", "wait") /\ LockDrain(t, th[t].g, "body")

SetMuStore(t) ==
    /\ AtMu(t, "SetMu", "body")
    /\ \E new \in StoredMu(t, th[t].m, MapAssign(Tbl(th[t].m), th[t].key, th[t].value)) :
         heap' = [heap EXCEPT ![data[th[t].m]] = new]
    /\ th' = [th EXCEPT ![t].pc = "unlock"]
    /\ UNCHANGED <<data, mu>>

SetMuUnlock(t) == AtMu(t, "SetMu", "unlock") /\ UnlockReturn(t, th[t].g)

\* func (m *ValueMap) Get(mu *sync.RWMutex, key K) (V, bool)
GetMuRLockOn(t, g, m, k) ==
    /\ Running
    /\ CallRLock(t, g, [Frame0 EXCEPT !.op = "GetMu", !.pc = "body", !.g = g, !.m = m, !.key = k])

GetMuLoad(t) ==
    /\ AtMu(t, "GetMu", "body")
    /\ \E tbl \in ViewMu(t, th[t].m) :
         th' = [th EXCEPT ![t].v = Lookup(tbl, th[t].key),
                          ![t].ok = Has(tbl, th[t].key),
                          ![t].pc = "unlock"]
    /\ UNCHANGED <<data, heap, mu>>

GetMuRUnlock(t) == AtMu(t, "GetMu", "unlock") /\ RUnlockReturn(t, th[t].g)

\* func (m *ValueMap) Delete(mu *sync.RWMutex, key K)
DeleteMuLockOn(t, g, m, k) ==
    /\ Running
    /\ CallLock(t, g, [Frame0 EXCEPT !.op = "DeleteMu", !.pc = "wait", !.g = g, !.m = m, !.key = k])

DeleteMuLocked(t) == AtMu(t, "DeleteMu", "wait") /\ LockDrain(t, th[t].g, "body")

DeleteMuKey(t) ==
    /\ AtMu(t, "DeleteMu", "body")
    /\ \E new \in StoredMu(t, th[t].m, MapDelete(Tbl(th[t].m), th[t].key)) :
         heap' = [heap EXCEPT ![data[th[t].m]] = new]
    /\ th' = [th EXCEPT ![t].pc = "unlock"]
    /\ UNCHANGED <<data, mu>>

DeleteMuUnlock(t) == AtMu(t, "DeleteMu", "unlock") /\ UnlockReturn(t, th[t].g)

\* func (m *ValueMap) Clone(mu *sync.RWMutex) *ValueMap: it calls mu.Lock()
CloneMuLockOn(t, g, m) ==
    /\ Running
    /\ FreeInst # {}
    /\ CallLock(t, g, [Frame0 EXCEPT !.op = "CloneMu", !.pc = "wait", !.g = g, !.m = m,
                                     !.res = FreshInst])

CloneMuLocked(t) == AtMu(t, "CloneMu", "wait") /\ LockDrain(t, th[t].g, "body")

\* cp := make(map[K]V, len(m.data)), and the range of maps.Copy(cp, m.data)
CloneMuMake(t) ==
    /\ AtMu(t, "CloneMu", "body")
    /\ \E tbl \in ViewMu(t, th[t].m) :
         th' = [th EXCEPT ![t].cp = FreshAddr(data, th), ![t].it = DOMAIN tbl, ![t].pc = "loop"]
    /\ heap' = [heap EXCEPT ![FreshAddr(data, th)] = EmptyMap]
    /\ UNCHANGED <<data, mu>>

\* maps.Copy: dst[k] = v
CloneMuCopy(t) ==
    /\ AtMu(t, "CloneMu", "loop")
    /\ \E k \in th[t].it, tbl \in ViewMu(t, th[t].m) :
         /\ heap' = [heap EXCEPT ![th[t].cp] = MapAssign(@, k, Lookup(tbl, k))]
         /\ th' = [th EXCEPT ![t].it = @ \ {k}]
    /\ UNCHANGED <<data, mu>>

\* return &ValueMap{data: cp}
CloneMuReturn(t) ==
    /\ AtMu(t, "CloneMu", "loop")
    /\ th[t].it = {}
    /\ data' = [data EXCEPT ![th[t].res] = th[t].cp]
    /\ th' = [th EXCEPT ![t].pc = "unlock", ![t].cp = 0]
    /\ UNCHANGED <<heap, mu>>

\* the deferred mu.Unlock(); called as a statement, the caller drops the clone
CloneMuUnlockDrop(t) ==
    /\ AtMu(t, "CloneMu", "unlock")
    /\ mu' = [mu EXCEPT ![th[t].g].w = 0]
    /\ th' = [th EXCEPT ![t] = Frame0]
    /\ data' = [data EXCEPT ![th[t].res] = 0]
    /\ heap' = Sweep(heap, data', th')

\* func (m *ValueMap) Merge(mu *sync.RWMutex, other *ValueMap)
MergeMuLockOn(t, g, m, other) ==
    /\ Running
    /\ CallLock(t, g, [Frame0 EXCEPT !.op = "MergeMu", !.pc = "wait", !.g = g,
                                     !.m = m, !.other = other])

MergeMuLocked(t) == AtMu(t, "MergeMu", "wait") /\ LockDrain(t, th[t].g, "body")

\* maps.Copy(m.data, other.data): for k, v := range src
MergeMuRange(t) ==
    /\ AtMu(t, "MergeMu", "body")
    /\ \E tbl \in ViewMu(t, th[t].other) :
         th' = [th EXCEPT ![t].it = DOMAIN tbl, ![t].pc = "loop"]
    /\ UNCHANGED <<data, heap, mu>>

\* maps.Copy: dst[k] = v
MergeMuCopy(t) ==
    /\ AtMu(t, "MergeMu", "loop")
    /\ \E k \in th[t].it, tbl \in ViewMu(t, th[t].other) :
         /\ \E new \in StoredMu(t, th[t].m, MergeEntry(Tbl(th[t].m), tbl, k)) :
              heap' = [heap EXCEPT ![data[th[t].m]] = new]
         /\ th' = [th EXCEPT ![t].it = @ \ {k}]
    /\ UNCHANGED <<data, mu>>

MergeMuUnlock(t) ==
    /\ AtMu(t, "MergeMu", "loop")
    /\ th[t].it = {}
    /\ UnlockReturn(t, th[t].g)

\* func (m *ValueMap) Keys(mu *sync.RWMutex) []K
KeysMuRLockOn(t, g, m) ==
    /\ Running
    /\ CallRLock(t, g, [Frame0 EXCEPT !.op = "KeysMu", !.pc = "body", !.g = g, !.m = m])

KeysMuMake(t) ==
    /\ AtMu(t, "KeysMu", "body")
    /\ \E tbl \in ViewMu(t, th[t].m) :
         th' = [th EXCEPT ![t].out = <<>>, ![t].it = DOMAIN tbl, ![t].pc = "loop"]
    /\ UNCHANGED <<data, heap, mu>>

KeysMuAppend(t) ==
    /\ AtMu(t, "KeysMu", "loop")
    /\ \E k \in th[t].it :
         th' = [th EXCEPT ![t].out = Append(@, k), ![t].it = @ \ {k}]
    /\ UNCHANGED <<data, heap, mu>>

KeysMuRUnlock(t) ==
    /\ AtMu(t, "KeysMu", "loop")
    /\ th[t].it = {}
    /\ RUnlockReturn(t, th[t].g)

\* func (m *ValueMap) Values(mu *sync.RWMutex) []V
ValuesMuRLockOn(t, g, m) ==
    /\ Running
    /\ CallRLock(t, g, [Frame0 EXCEPT !.op = "ValuesMu", !.pc = "body", !.g = g, !.m = m])

ValuesMuMake(t) ==
    /\ AtMu(t, "ValuesMu", "body")
    /\ \E tbl \in ViewMu(t, th[t].m) :
         th' = [th EXCEPT ![t].out = <<>>, ![t].it = DOMAIN tbl, ![t].pc = "loop"]
    /\ UNCHANGED <<data, heap, mu>>

ValuesMuAppend(t) ==
    /\ AtMu(t, "ValuesMu", "loop")
    /\ \E k \in th[t].it, tbl \in ViewMu(t, th[t].m) :
         th' = [th EXCEPT ![t].out = Append(@, Lookup(tbl, k)), ![t].it = @ \ {k}]
    /\ UNCHANGED <<data, heap, mu>>

ValuesMuRUnlock(t) ==
    /\ AtMu(t, "ValuesMu", "loop")
    /\ th[t].it = {}
    /\ RUnlockReturn(t, th[t].g)

\* func (m *ValueMap) Len(mu *sync.RWMutex) int
LenMuRLockOn(t, g, m) ==
    /\ Running
    /\ CallRLock(t, g, [Frame0 EXCEPT !.op = "LenMu", !.pc = "body", !.g = g, !.m = m])

LenMuRead(t) ==
    /\ AtMu(t, "LenMu", "body")
    /\ \E tbl \in ViewMu(t, th[t].m) :
         th' = [th EXCEPT ![t].n = MapLen(tbl), ![t].pc = "unlock"]
    /\ UNCHANGED <<data, heap, mu>>

LenMuRUnlock(t) == AtMu(t, "LenMu", "unlock") /\ RUnlockReturn(t, th[t].g)

\* func (m *ValueMap) Clear(mu *sync.RWMutex)
ClearMuLockOn(t, g, m) ==
    /\ Running
    /\ CallLock(t, g, [Frame0 EXCEPT !.op = "ClearMu", !.pc = "wait", !.g = g, !.m = m])

ClearMuLocked(t) == AtMu(t, "ClearMu", "wait") /\ LockDrain(t, th[t].g, "body")

\* m.data = make(map[K]V)
ClearMuMake(t) ==
    /\ AtMu(t, "ClearMu", "body")
    /\ LET m == th[t].m
           a == FreshAddr([data EXCEPT ![m] = 0], th)
       IN /\ data' = [data EXCEPT ![m] = a]
          /\ \E new \in StoredMu(t, m, EmptyMap) :
               heap' = Sweep([heap EXCEPT ![a] = new], data', th)
    /\ th' = [th EXCEPT ![t].pc = "unlock"]
    /\ UNCHANGED mu

ClearMuUnlock(t) == AtMu(t, "ClearMu", "unlock") /\ UnlockReturn(t, th[t].g)

\* func (m *ValueMap) Raw(mu *sync.RWMutex) map[K]V
RawMuRLockOn(t, g, m) ==
    /\ Running
    /\ CallRLock(t, g, [Frame0 EXCEPT !.op = "RawMu", !.pc = "body", !.g = g, !.m = m])

RawMuMake(t) ==
    /\ AtMu(t, "RawMu", "body")
    /\ \E tbl \in ViewMu(t, th[t].m) :
         th' = [th EXCEPT ![t].cp = FreshAddr(data, th), ![t].it = DOMAIN tbl, ![t].pc = "loop"]
    /\ heap' = [heap EXCEPT ![FreshAddr(data, th)] = EmptyMap]
    /\ UNCHANGED <<data, mu>>

RawMuCopy(t) ==
    /\ AtMu(t, "RawMu", "loop")
    /\ \E k \in th[t].it, tbl \in ViewMu(t, th[t].m) :
         /\ heap' = [heap EXCEPT ![th[t].cp] = MapAssign(@, k, Lookup(tbl, k))]
         /\ th' = [th EXCEPT ![t].it = @ \ {k}]
    /\ UNCHANGED <<data, mu>>

RawMuRUnlock(t) ==
    /\ AtMu(t, "RawMu", "loop")
    /\ th[t].it = {}
    /\ RUnlockReturn(t, th[t].g)

\* A step of goroutine t inside the valuemap.go call it is in.
StepMu(t) ==
    \/ SetMuLocked(t) \/ SetMuStore(t) \/ SetMuUnlock(t)
    \/ GetMuLoad(t) \/ GetMuRUnlock(t)
    \/ DeleteMuLocked(t) \/ DeleteMuKey(t) \/ DeleteMuUnlock(t)
    \/ CloneMuLocked(t) \/ CloneMuMake(t) \/ CloneMuCopy(t) \/ CloneMuReturn(t)
    \/ CloneMuUnlockDrop(t)
    \/ MergeMuLocked(t) \/ MergeMuRange(t) \/ MergeMuCopy(t) \/ MergeMuUnlock(t)
    \/ KeysMuMake(t) \/ KeysMuAppend(t) \/ KeysMuRUnlock(t)
    \/ ValuesMuMake(t) \/ ValuesMuAppend(t) \/ ValuesMuRUnlock(t)
    \/ LenMuRead(t) \/ LenMuRUnlock(t)
    \/ ClearMuLocked(t) \/ ClearMuMake(t) \/ ClearMuUnlock(t)
    \/ RawMuMake(t) \/ RawMuCopy(t) \/ RawMuRUnlock(t)

----------------------------------------------------------------------------
\* The state after construction: the first n ValueMaps come from New().

InitProg(n) ==
    /\ data = [i \in Inst |-> IF i <= n THEN i ELSE 0]
    /\ heap = [a \in Addr |-> EmptyMap]
    /\ mu = [i \in Inst |-> Mutex0]
    /\ th = [t \in Threads |-> Frame0]
    /\ own = 0

InitObs ==
    /\ last = [i \in Inst |-> [k \in Keys |-> <<"never", 0>>]]
    /\ pre = <<>>
    /\ clones = {}
    /\ fresh = {}
    /\ wiped = {}
    /\ sets = {}

----------------------------------------------------------------------------
\* A step of goroutine t inside the call it is in.

Step(t) ==
    \/ SetLocked(t)
    \/ SetStore(t)
    \/ SetUnlock(t)
    \/ GetLoad(t)
    \/ GetRUnlock(t)
    \/ DeleteLocked(t)
    \/ DeleteKey(t)
    \/ DeleteUnlock(t)
    \/ CloneMake(t)
    \/ CloneCopy(t)
    \/ CloneReturn(t)
    \/ CloneRUnlock(t)
    \/ CloneRUnlockDrop(t)
    \/ MergeLock(t)
    \/ MergeLocked(t)
    \/ MergeRange(t)
    \/ MergeCopy(t)
    \/ MergeUnlock(t)
    \/ MergeRUnlock(t)
    \/ EqualRLockOther(t)
    \/ EqualLen(t)
    \/ EqualCompare(t)
    \/ EqualTrue(t)
    \/ EqualRUnlockOther(t)
    \/ EqualRUnlock(t)
    \/ KeysMake(t)
    \/ KeysAppend(t)
    \/ KeysRUnlock(t)
    \/ ValuesMake(t)
    \/ ValuesAppend(t)
    \/ ValuesRUnlock(t)
    \/ LenRead(t)
    \/ LenRUnlock(t)
    \/ ClearLocked(t)
    \/ ClearMake(t)
    \/ ClearUnlock(t)
    \/ RawMake(t)
    \/ RawCopy(t)
    \/ RawRUnlock(t)

----------------------------------------------------------------------------
\* Observers.  They record what a sequential caller knows about its own calls;
\* no method reads them.

Called(t) == th[t].pc = "idle" /\ th'[t].pc # "idle"
Returned(t) == th[t].pc # "idle" /\ th'[t].pc = "idle"

\* The results of the call of goroutine t are final and it still holds its locks.
Returning(t) ==
    \/ th[t].pc \in {"unlock", "unlock2"}
    \/ th[t].op \in {"Keys", "Values", "Raw", "Merge"} /\ th[t].pc = "loop" /\ th[t].it = {}

Mutators == {"Set", "Delete", "Clear", "Merge"}

\* The caller of the sequential scenario: it remembers the tables at each call,
\* which ValueMaps are clones of which, and which of them it has cleared.
Watch(t) ==
    /\ pre' = IF Called(t) THEN [i \in Live |-> Tbl(i)]
              ELSE IF Returned(t) THEN <<>> ELSE pre
    /\ clones' = IF Returned(t) /\ th[t].op = "Clone"
                 THEN clones \cup {<<th[t].m, th[t].res>>} ELSE clones
    /\ fresh' = IF Returned(t) /\ th[t].op = "Clone"
                THEN fresh \cup {<<th[t].m, th[t].res>>}
                ELSE IF Called(t) /\ th'[t].op \in Mutators
                THEN {p \in fresh : th'[t].m # p[1] /\ th'[t].m # p[2]}
                ELSE fresh
    /\ wiped' = IF Called(t) /\ th'[t].op = "Clear"
                THEN {p \in wiped : p[1] # th'[t].m} \cup {<<th'[t].m, MapLen(Tbl(th'[t].m))>>}
                ELSE IF Called(t) /\ th'[t].op \in {"Set", "Merge"}
                THEN {p \in wiped : p[1] # th'[t].m}
                ELSE wiped
    /\ UNCHANGED <<own, last, sets>>

\* The caller of the Set/Delete scenario: it remembers, per key, its last Set or Delete.
WatchKeys(t) ==
    /\ last' = IF Returned(t) /\ th[t].op = "Set"
               THEN [last EXCEPT ![th[t].m][th[t].key] = <<"set", th[t].value>>]
               ELSE IF Returned(t) /\ th[t].op = "Delete"
               THEN [last EXCEPT ![th[t].m][th[t].key] = <<"delete", 0>>]
               ELSE last
    /\ UNCHANGED <<own, pre, clones, fresh, wiped, sets>>

----------------------------------------------------------------------------
\* Two goroutines on two ValueMaps: both call the writing methods, the second
\* also the reading ones.

Init == InitProg(2) /\ InitObs

Next ==
    \/ \E t \in {1, 2} :
        \/ SetLock(t) /\ UNCHANGED <<own, observers>>
        \/ SetLocked(t) /\ UNCHANGED <<own, observers>>
        \/ SetStore(t) /\ UNCHANGED <<own, observers>>
        \/ SetUnlock(t) /\ UNCHANGED <<own, observers>>
        \/ DeleteLock(t) /\ UNCHANGED <<own, observers>>
        \/ DeleteLocked(t) /\ UNCHANGED <<own, observers>>
        \/ DeleteKey(t) /\ UNCHANGED <<own, observers>>
        \/ DeleteUnlock(t) /\ UNCHANGED <<own, observers>>
        \/ MergeRLock(t) /\ UNCHANGED <<own, observers>>
        \/ MergeLock(t) /\ UNCHANGED <<own, observers>>
        \/ MergeLocked(t) /\ UNCHANGED <<own, observers>>
        \/ MergeRange(t) /\ UNCHANGED <<own, observers>>
        \/ MergeCopy(t) /\ UNCHANGED <<own, observers>>
        \/ MergeUnlock(t) /\ UNCHANGED <<own, observers>>
        \/ MergeRUnlock(t) /\ UNCHANGED <<own, observers>>
        \/ ClearLock(t) /\ UNCHANGED <<own, observers>>
        \/ ClearLocked(t) /\ UNCHANGED <<own, observers>>
        \/ ClearMake(t) /\ UNCHANGED <<own, observers>>
        \/ ClearUnlock(t) /\ UNCHANGED <<own, observers>>
    \/ \E t \in {2} :
        \/ GetRLock(t) /\ UNCHANGED <<own, observers>>
        \/ GetLoad(t) /\ UNCHANGED <<own, observers>>
        \/ GetRUnlock(t) /\ UNCHANGED <<own, observers>>
        \/ CloneRLock(t) /\ UNCHANGED <<own, observers>>
        \/ CloneMake(t) /\ UNCHANGED <<own, observers>>
        \/ CloneCopy(t) /\ UNCHANGED <<own, observers>>
        \/ CloneReturn(t) /\ UNCHANGED <<own, observers>>
        \/ EqualRLock(t) /\ UNCHANGED <<own, observers>>
        \/ EqualRLockOther(t) /\ UNCHANGED <<own, observers>>
        \/ EqualLen(t) /\ UNCHANGED <<own, observers>>
        \/ EqualCompare(t) /\ UNCHANGED <<own, observers>>
        \/ EqualTrue(t) /\ UNCHANGED <<own, observers>>
        \/ EqualRUnlockOther(t) /\ UNCHANGED <<own, observers>>
        \/ EqualRUnlock(t) /\ UNCHANGED <<own, observers>>
        \/ KeysRLock(t) /\ UNCHANGED <<own, observers>>
        \/ KeysMake(t) /\ UNCHANGED <<own, observers>>
        \/ KeysAppend(t) /\ UNCHANGED <<own, observers>>
        \/ KeysRUnlock(t) /\ UNCHANGED <<own, observers>>
        \/ ValuesRLock(t) /\ UNCHANGED <<own, observers>>
        \/ ValuesMake(t) /\ UNCHANGED <<own, observers>>
        \/ ValuesAppend(t) /\ UNCHANGED <<own, observers>>
        \/ ValuesRUnlock(t) /\ UNCHANGED <<own, observers>>
        \/ LenRLock(t) /\ UNCHANGED <<own, observers>>
        \/ LenRead(t) /\ UNCHANGED <<own, observers>>
        \/ LenRUnlock(t) /\ UNCHANGED <<own, observers>>
        \/ RawRLock(t) /\ UNCHANGED <<own, observers>>
        \/ RawMake(t) /\ UNCHANGED <<own, observers>>
        \/ RawCopy(t) /\ UNCHANGED <<own, observers>>
        \/ RawRUnlock(t) /\ UNCHANGED <<own, observers>>
        \/ CloneRUnlockDrop(t) /\ UNCHANGED <<own, observers>>

Spec == Init /\ [][Next]_vars

\* No call in progress can take a step: the calls wait for each other, and
\* none of them ever returns.
Stuck == \A t \in Threads : th[t].pc = "idle" \/ ~ENABLED Step(t)

\* C1: a.Merge(b) in one goroutine and b.Merge(a) in another both return: there
\* is no state in which the two calls wait for each other.
MergeMergeReturns ==
    \A t \in Threads, u \in Threads :
        (/\ th[t].op = "Merge" /\ th[u].op = "Merge"
         /\ th[t].m # th[t].other
         /\ th[u].m = th[t].other /\ th[u].other = th[t].m)
        => ~Stuck

\* C8: while a goroutine is in the writing section of Set, Delete, Clear or Merge
\* on a ValueMap, no other goroutine is in a section that reads or writes that
\* ValueMap, be it as the receiver or as the other of Merge or Equal.
WriterExcludes ==
    \A i \in Inst, t \in Threads :
        Writes(t, i) => \A u \in Threads \ {t} : ~Reads(u, i) /\ ~Writes(u, i)

\* A Merge is writing one ValueMap while a second goroutine reads the other one with it.
WriterBesideReaders ==
    \E i \in Inst, j \in Inst :
        /\ Writes(1, i) /\ th[1].pc = "loop" /\ th[1].it # {}
        /\ Reads(1, j) /\ Reads(2, j)

\* The elements of a slice, and how often a value occurs in a slice or in a table.
Elems(seq) == {seq[j] : j \in DOMAIN seq}
Count(f, v) == Cardinality({x \in DOMAIN f : f[x] = v})

\* What Clone, Raw, Keys, Values or Len is about to return is the whole table as
\* it stands, and no Set, Delete, Clear or Merge on that table is under way.
SnapshotWhole ==
    \A t \in Threads :
        (th[t].op \in {"Clone", "Raw", "Keys", "Values", "Len"} /\ Returning(t))
        => LET tbl == Tbl(th[t].m) IN
           /\ \A u \in Threads \ {t} : ~Writes(u, th[t].m)
           /\ th[t].op = "Clone" => heap[data[th[t].res]] = tbl
           /\ th[t].op = "Raw" => heap[th[t].cp] = tbl
           /\ th[t].op = "Keys" => Elems(th[t].out) = DOMAIN tbl /\ Len(th[t].out) = MapLen(tbl)
           /\ th[t].op = "Values"
                => /\ Len(th[t].out) = MapLen(tbl)
                   /\ \A v \in Vals : Count(th[t].out, v) = Count(tbl, v)
           /\ th[t].op = "Len" => th[t].n = MapLen(tbl)

\* A table stays as it is from the moment a call starts to read it until that
\* call is through with it, and only the call that writes a table changes it.
TableStable ==
    \A i \in Inst :
        (data[i] # 0 /\ data'[i] # 0 /\ heap'[data'[i]] # heap[data[i]])
        => /\ \A t \in Threads : ~(Reads(t, i) /\ th'[t].pc # "idle")
           /\ \E t \in Threads : Writes(t, i) /\ \A u \in Threads \ {t} : th'[u] = th[u]

\* C9: each call acts at one instant. What Clone, Raw, Keys, Values and Len
\* return is the whole table at an instant at which no Set, Delete, Clear or
\* Merge on it is under way (the table before or after each of them, never a
\* part of one), and the tables a call reads do not change while it reads them.
SnapshotAtomic == []SnapshotWhole /\ [][TableStable]_vars

\* A Clone of m is complete while m.Merge(other), with every key in other, waits for m's lock.
CloneBesideMerge ==
    /\ th[2].op = "Clone" /\ Returning(2)
    /\ th[1].op = "Merge" /\ th[1].m = th[2].m /\ th[1].pc = "wait"
    /\ MapLen(Tbl(th[1].other)) = MaxKey
    /\ Tbl(th[2].m) # EmptyMap

----------------------------------------------------------------------------
\* One goroutine calling every method, one call after the other, on a ValueMap
\* from New() and on the clone it makes of it.

InitSeq == InitProg(1) /\ InitObs

NextSeq ==
    \/ \E t \in {1} :
        \/ SetLock(t) /\ Watch(t)
        \/ SetLocked(t) /\ Watch(t)
        \/ SetStore(t) /\ Watch(t)
        \/ SetUnlock(t) /\ Watch(t)
        \/ GetRLock(t) /\ Watch(t)
        \/ GetLoad(t) /\ Watch(t)
        \/ GetRUnlock(t) /\ Watch(t)
        \/ DeleteLock(t) /\ Watch(t)
        \/ DeleteLocked(t) /\ Watch(t)
        \/ DeleteKey(t) /\ Watch(t)
        \/ DeleteUnlock(t) /\ Watch(t)
        \/ CloneRLock(t) /\ clones = {} /\ Watch(t)
        \/ CloneMake(t) /\ Watch(t)
        \/ CloneCopy(t) /\ Watch(t)
        \/ CloneReturn(t) /\ Watch(t)
        \/ CloneRUnlock(t) /\ Watch(t)
        \/ MergeRLock(t) /\ Watch(t)
        \/ MergeLock(t) /\ Watch(t)
        \/ MergeLocked(t) /\ Watch(t)
        \/ MergeRange(t) /\ Watch(t)
        \/ MergeCopy(t) /\ Watch(t)
        \/ MergeUnlock(t) /\ Watch(t)
        \/ MergeRUnlock(t) /\ Watch(t)
        \/ EqualRLock(t) /\ Watch(t)
        \/ EqualRLockOther(t) /\ Watch(t)
        \/ EqualLen(t) /\ Watch(t)
        \/ EqualCompare(t) /\ Watch(t)
        \/ EqualTrue(t) /\ Watch(t)
        \/ EqualRUnlockOther(t) /\ Watch(t)
        \/ EqualRUnlock(t) /\ Watch(t)
        \/ KeysRLock(t) /\ Watch(t)
        \/ KeysMake(t) /\ Watch(t)
        \/ KeysAppend(t) /\ Watch(t)
        \/ KeysRUnlock(t) /\ Watch(t)
        \/ ValuesRLock(t) /\ Watch(t)
        \/ ValuesMake(t) /\ Watch(t)
        \/ ValuesAppend(t) /\ Watch(t)
        \/ ValuesRUnlock(t) /\ Watch(t)
        \/ LenRLock(t) /\ Watch(t)
        \/ LenRead(t) /\ Watch(t)
        \/ LenRUnlock(t) /\ Watch(t)
        \/ ClearLock(t) /\ Watch(t)
        \/ ClearLocked(t) /\ Watch(t)
        \/ ClearMake(t) /\ Watch(t)
        \/ ClearUnlock(t) /\ Watch(t)
        \/ RawRLock(t) /\ Watch(t)
        \/ RawMake(t) /\ Watch(t)
        \/ RawCopy(t) /\ Watch(t)
        \/ RawRUnlock(t) /\ Watch(t)

SpecSeq == InitSeq /\ [][NextSeq]_vars

\* C4: right after c := m.Clone(), m.Equal(c) and c.Equal(m) return true; and a
\* Set, Delete, Clear or Merge on one side of a clone pair leaves every Get and
\* Len result of the other side as it was when the call was made.
CloneEqualAndIndependent ==
    \A t \in Threads :
        /\ (th[t].op = "Equal" /\ Returning(t)
              /\ (<<th[t].m, th[t].other>> \in fresh \/ <<th[t].other, th[t].m>> \in fresh))
           => th[t].eq
        /\ (th[t].op \in Mutators /\ th[t].pc # "idle")
           => \A p \in clones : \A y \in {p[1], p[2]} \ {th[t].m} :
                  (th[t].m \in {p[1], p[2]})
                  => /\ MapLen(Tbl(y)) = MapLen(pre[y])
                     /\ \A k \in Keys : GetResult(Tbl(y), k) = GetResult(pre[y], k)

\* A Set on the clone has taken effect there, and the clone now differs from its source.
CloneWritten ==
    \E t \in Threads, p \in clones :
        /\ th[t].op = "Set" /\ Returning(t) /\ th[t].m = p[2]
        /\ Tbl(p[2]) # pre[p[2]]
        /\ Tbl(p[1]) # Tbl(p[2])
        /\ Tbl(p[1]) # EmptyMap

\* C5: when a.Merge(b) is over, a.Get(k) is b.Get(k) for every key of b, a.Get(k)
\* is what it was for every key of a alone, and a's keys are those of a and of b.
MergeResult ==
    \A t \in Threads :
        (th[t].op = "Merge" /\ Returning(t))
        => LET a == th[t].m
               b == th[t].other
           IN /\ \A k \in DOMAIN pre[b] :
                    /\ GetResult(Tbl(a), k) = GetResult(pre[b], k)
                    /\ GetResult(Tbl(a), k) = GetResult(Tbl(b), k)
              /\ \A k \in DOMAIN pre[a] \ DOMAIN pre[b] :
                    GetResult(Tbl(a), k) = GetResult(pre[a], k)
              /\ DOMAIN Tbl(a) = DOMAIN pre[a] \cup DOMAIN pre[b]

\* A merge that overwrote one key of a and left another key of a alone.
MergeOverwrote ==
    \E t \in Threads, k1 \in Keys, k2 \in Keys :
        /\ th[t].op = "Merge" /\ Returning(t)
        /\ Has(pre[th[t].m], k1) /\ Has(pre[th[t].other], k1)
        /\ pre[th[t].m][k1] # pre[th[t].other][k1]
        /\ Has(pre[th[t].m], k2) /\ ~Has(pre[th[t].other], k2)

\* C6: m.Equal(other) returns true exactly when the two tables have the same keys
\* and the same value for every key; so it is reflexive and symmetric, and one
\* changed value or one key more or less makes it false.
EqualIffSameTable ==
    \A t \in Threads :
        (th[t].op = "Equal" /\ Returning(t))
        => (th[t].eq <=> Tbl(th[t].m) = Tbl(th[t].other))

\* Equal has returned false for two tables with the same keys and one different value.
EqualSawValue ==
    \E t \in Threads :
        /\ th[t].op = "Equal" /\ Returning(t) /\ ~th[t].eq
        /\ DOMAIN Tbl(th[t].m) = DOMAIN Tbl(th[t].other)
        /\ MapLen(Tbl(th[t].m)) = MaxKey

\* C10: after m.Clear(), whatever m held, and until a Set or a Merge on m, Len
\* returns 0, Keys and Values return empty slices and Get finds no key.
ClearEmpties ==
    \A t \in Threads :
        (Returning(t) /\ \E p \in wiped : p[1] = th[t].m)
        => /\ th[t].op = "Len" => th[t].n = 0
           /\ th[t].op \in {"Keys", "Values"} => th[t].out = <<>>
           /\ th[t].op = "Get" => <<th[t].v, th[t].ok>> = <<0, FALSE>>

\* Len has returned for a ValueMap that was cleared when it held every key.
LenAfterClear ==
    \E t \in Threads :
        /\ th[t].op = "Len" /\ Returning(t)
        /\ <<th[t].m, MaxKey>> \in wiped

----------------------------------------------------------------------------
\* One goroutine calling Set, Delete and Get, one call after the other, on one
\* ValueMap from New().

InitKeys == InitProg(0) /\ InitObs

NextKeys ==
    \/ New /\ Live = {} /\ UNCHANGED <<own, observers>>
    \/ \E t \in {1} :
        \/ SetLock(t) /\ WatchKeys(t)
        \/ SetLocked(t) /\ WatchKeys(t)
        \/ SetStore(t) /\ WatchKeys(t)
        \/ SetUnlock(t) /\ WatchKeys(t)
        \/ GetRLock(t) /\ WatchKeys(t)
        \/ GetLoad(t) /\ WatchKeys(t)
        \/ GetRUnlock(t) /\ WatchKeys(t)
        \/ DeleteLock(t) /\ WatchKeys(t)
        \/ DeleteLocked(t) /\ WatchKeys(t)
        \/ DeleteKey(t) /\ WatchKeys(t)
        \/ DeleteUnlock(t) /\ WatchKeys(t)

SpecKeys == InitKeys /\ [][NextKeys]_vars

\* C3: Get(k) returns (v, true) for the v of the most recent Set(k, v) when no
\* Delete(k) came after it, and (0, false) when the last call on k was a Delete
\* or k was never set.
GetAfterSetDelete ==
    \A t \in Threads :
        (th[t].op = "Get" /\ Returning(t))
        => <<th[t].v, th[t].ok>> =
              IF last[th[t].m][th[t].key][1] = "set"
              THEN <<last[th[t].m][th[t].key][2], TRUE>>
              ELSE <<0, FALSE>>

\* Get has returned for a key whose last call was a Delete, another key being set.
GetAfterDelete ==
    \E t \in Threads, k \in Keys :
        /\ th[t].op = "Get" /\ Returning(t)
        /\ last[th[t].m][th[t].key][1] = "delete"
        /\ last[th[t].m][k] = <<"set", MaxVal>>

----------------------------------------------------------------------------
\* NSetters goroutines, each calling Set once, with a key of its own, on one
\* empty ValueMap, while one more goroutine calls Len on it.

NSetters == 2
Setters == 1..NSetters
Counter == NSetters + 1

InitSetters == InitProg(1) /\ InitObs

SetLockOnce(t) ==
    /\ \A e \in sets : e[1] # t
    /\ \E k \in Keys \ {e[2] : e \in sets}, v \in Vals :
         /\ SetLockOn(t, 1, k, v)
         /\ sets' = sets \cup {<<t, k, v>>}
    /\ UNCHANGED <<own, last, pre, clones, fresh, wiped>>

NextSetters ==
    \/ \E t \in Setters :
        \/ SetLockOnce(t)
        \/ SetLocked(t) /\ UNCHANGED <<own, observers>>
        \/ SetStore(t) /\ UNCHANGED <<own, observers>>
        \/ SetUnlock(t) /\ UNCHANGED <<own, observers>>
    \/ \E t \in {Counter} :
        \/ LenRLock(t) /\ UNCHANGED <<own, observers>>
        \/ LenRead(t) /\ UNCHANGED <<own, observers>>
        \/ LenRUnlock(t) /\ UNCHANGED <<own, observers>>

SpecSetters == InitSetters /\ [][NextSetters]_vars

AllSet == \A t \in Setters : th[t].pc = "idle" /\ \E e \in sets : e[1] = t

\* C7: when the NSetters calls have returned, Len is NSetters and every key is
\* there with its value; a call that has returned is never undone by another,
\* and Len counts the calls that have returned.
NoLostUpdate ==
    /\ \A e \in sets : th[e[1]].pc = "idle" => GetResult(Tbl(1), e[2]) = <<e[3], TRUE>>
    /\ AllSet => MapLen(Tbl(1)) = NSetters
    /\ At(Counter, "Len", "unlock")
         => th[Counter].n = Cardinality({e \in sets : th[e[1]].pc = "idle"})

\* All the setters have returned.
AllSetDone == AllSet /\ Cardinality({e[2] : e \in sets}) = NSetters

----------------------------------------------------------------------------
\* Goroutine 1 calls a.Equal(b) and goroutine 2 b.Equal(a), again and again,
\* while goroutine 3 calls Set on a and goroutine 4 Set on b.

InitEqual == InitProg(2) /\ InitObs

NextEqual ==
    \/ EqualRLockOn(1, 1, 2) /\ UNCHANGED <<own, observers>>
    \/ EqualRLockOn(2, 2, 1) /\ UNCHANGED <<own, observers>>
    \/ \E k \in Keys, v \in Vals : SetLockOn(3, 1, k, v) /\ UNCHANGED <<own, observers>>
    \/ \E k \in Keys, v \in Vals : SetLockOn(4, 2, k, v) /\ UNCHANGED <<own, observers>>
    \/ \E t \in {1, 2} :
        \/ EqualRLockOther(t) /\ UNCHANGED <<own, observers>>
        \/ EqualLen(t) /\ UNCHANGED <<own, observers>>
        \/ EqualCompare(t) /\ UNCHANGED <<own, observers>>
        \/ EqualTrue(t) /\ UNCHANGED <<own, observers>>
        \/ EqualRUnlockOther(t) /\ UNCHANGED <<own, observers>>
        \/ EqualRUnlock(t) /\ UNCHANGED <<own, observers>>
    \/ \E t \in {3, 4} :
        \/ SetLocked(t) /\ UNCHANGED <<own, observers>>
        \/ SetStore(t) /\ UNCHANGED <<own, observers>>
        \/ SetUnlock(t) /\ UNCHANGED <<own, observers>>

SpecEqual == InitEqual /\ [][NextEqual]_vars

\* C2: a.Equal(b) and b.Equal(a) both return, also while other goroutines call
\* Set on a and on b: there is no state in which the calls wait for each other.
EqualEqualReturns ==
    (th[1].op = "Equal" /\ th[2].op = "Equal") => ~Stuck

----------------------------------------------------------------------------
\* One goroutine that holds a map of its own: it builds it and writes it, makes
\* a ValueMap from it with FromMap, replaces it by the result of Raw, and calls
\* the methods of the ValueMaps in between.

InitOwn == InitProg(1) /\ InitObs

NextOwn ==
    \E t \in {1} :
        \/ OwnMake(t) /\ UNCHANGED observers
        \/ OwnAssign(t) /\ UNCHANGED observers
        \/ OwnDelete(t) /\ UNCHANGED observers
        \/ FromMap(t) /\ data[2] = 0 /\ UNCHANGED observers
        \/ RawRLock(t) /\ UNCHANGED <<own, observers>>
        \/ RawMake(t) /\ UNCHANGED <<own, observers>>
        \/ RawCopy(t) /\ UNCHANGED <<own, observers>>
        \/ RawRUnlockKeep(t) /\ UNCHANGED observers
        \/ SetLock(t) /\ UNCHANGED <<own, observers>>
        \/ SetLocked(t) /\ UNCHANGED <<own, observers>>
        \/ SetStore(t) /\ UNCHANGED <<own, observers>>
        \/ SetUnlock(t) /\ UNCHANGED <<own, observers>>
        \/ GetRLock(t) /\ UNCHANGED <<own, observers>>
        \/ GetLoad(t) /\ UNCHANGED <<own, observers>>
        \/ GetRUnlock(t) /\ UNCHANGED <<own, observers>>
        \/ DeleteLock(t) /\ UNCHANGED <<own, observers>>
        \/ DeleteLocked(t) /\ UNCHANGED <<own, observers>>
        \/ DeleteKey(t) /\ UNCHANGED <<own, observers>>
        \/ DeleteUnlock(t) /\ UNCHANGED <<own, observers>>
        \/ MergeRLock(t) /\ UNCHANGED <<own, observers>>
        \/ MergeLock(t) /\ UNCHANGED <<own, observers>>
        \/ MergeLocked(t) /\ UNCHANGED <<own, observers>>
        \/ MergeRange(t) /\ UNCHANGED <<own, observers>>
        \/ MergeCopy(t) /\ UNCHANGED <<own, observers>>
        \/ MergeUnlock(t) /\ UNCHANGED <<own, observers>>
        \/ MergeRUnlock(t) /\ UNCHANGED <<own, observers>>
        \/ ClearLock(t) /\ UNCHANGED <<own, observers>>
        \/ ClearLocked(t) /\ UNCHANGED <<own, observers>>
        \/ ClearMake(t) /\ UNCHANGED <<own, observers>>
        \/ ClearUnlock(t) /\ UNCHANGED <<own, observers>>

SpecOwn == InitOwn /\ [][NextOwn]_vars

\* No ValueMap refers to the map the caller holds.
OwnUnshared == own # 0 => \A i \in Inst : data[i] # own

\* A step of a method leaves the caller's map as it is, and a step of the
\* caller on its map leaves every table as it is.
OwnApart ==
    (own # 0 /\ own' = own)
    => /\ th' # th => heap'[own] = heap[own]
       /\ th' = th => \A i \in Inst :
                         data[i] # 0 => data'[i] = data[i] /\ heap'[data[i]] = heap[data[i]]

\* C11: the map passed to FromMap and the map returned by Raw are not the map
\* of any ValueMap: writing them changes no table, and no method changes them.
NoAliasOwn == []OwnUnshared /\ [][OwnApart]_vars

\* The caller's map and the table made from it by FromMap have come apart.
FromMapDiverged ==
    /\ own # 0 /\ data[2] # 0
    /\ heap[own] # EmptyMap /\ Tbl(2) # EmptyMap
    /\ DOMAIN heap[own] = DOMAIN Tbl(2)
    /\ heap[own] # Tbl(2)

----------------------------------------------------------------------------
\* More on the one goroutine calling every method (SpecSeq).

\* C12: m.Merge(m) returns: at every point of the call the goroutine can take
\* its next step.
SelfMergeReturns ==
    \A t \in Threads :
        (th[t].op = "Merge" /\ th[t].m = th[t].other) => ENABLED Step(t)

ReadOnlyOps == {"Get", "Keys", "Values", "Len", "Raw", "Clone", "Equal"}

\* C18: Get, Keys, Values, Len, Raw, Clone and Equal leave every table as it was
\* when they were called; Get of an absent key returns (0, false) and does not
\* insert the key; Delete of an absent key leaves the table and its length alone.
ReadersLeaveTable ==
    \A t \in Threads :
        /\ (th[t].op \in ReadOnlyOps /\ th[t].pc # "idle")
           => \A i \in DOMAIN pre : data[i] # 0 /\ Tbl(i) = pre[i]
        /\ (th[t].op = "Get" /\ Returning(t) /\ ~Has(pre[th[t].m], th[t].key))
           => <<th[t].v, th[t].ok>> = <<0, FALSE>> /\ ~Has(Tbl(th[t].m), th[t].key)
        /\ (th[t].op = "Delete" /\ th[t].pc # "idle" /\ ~Has(pre[th[t].m], th[t].key))
           => Tbl(th[t].m) = pre[th[t].m] /\ MapLen(Tbl(th[t].m)) = MapLen(pre[th[t].m])

\* Get has returned for a key that is absent from a table that holds another key.
GetAbsent ==
    \E t \in Threads :
        /\ th[t].op = "Get" /\ Returning(t)
        /\ ~Has(pre[th[t].m], th[t].key)
        /\ Tbl(th[t].m) # EmptyMap

\* C19: a.Merge(b), a and b distinct, leaves b's table as it was; no two
\* ValueMaps ever share a map object, so that a Set, Delete, Clear or Merge on
\* one ValueMap leaves the table of every other one as it was.
MergeNoAlias ==
    /\ \A i \in Inst, j \in Inst : (i # j /\ data[i] # 0) => data[i] # data[j]
    /\ \A t \in Threads :
        /\ (th[t].op = "Merge" /\ th[t].pc # "idle" /\ th[t].m # th[t].other)
           => Tbl(th[t].other) = pre[th[t].other]
        /\ (th[t].op \in Mutators /\ th[t].pc # "idle")
           => \A j \in DOMAIN pre \ {th[t].m} : Tbl(j) = pre[j]

\* A Merge has changed a into a table equal to b's, in a map object of its own.
MergeMadeEqual ==
    \E t \in Threads :
        /\ th[t].op = "Merge" /\ Returning(t) /\ th[t].m # th[t].other
        /\ Tbl(th[t].m) # pre[th[t].m]
        /\ Tbl(th[t].m) = Tbl(th[t].other)
        /\ MapLen(Tbl(th[t].m)) = MaxKey

\* C20: Keys returns every key of the table once, Values one value per key, Len
\* the number of keys, all of the same table; Set of a key that is absent makes
\* the table one longer and Set of a key that is present leaves its length.
KeysValuesLen ==
    \A t \in Threads :
        Returning(t)
        => LET tbl == Tbl(th[t].m) IN
           /\ th[t].op = "Keys"
                => Len(th[t].out) = MapLen(tbl) /\ Elems(th[t].out) = DOMAIN tbl
           /\ th[t].op = "Values"
                => /\ Len(th[t].out) = MapLen(tbl)
                   /\ \A v \in Vals : Count(th[t].out, v) = Count(tbl, v)
           /\ th[t].op = "Len" => th[t].n = MapLen(tbl)
           /\ th[t].op = "Set"
                => MapLen(tbl) = MapLen(pre[th[t].m])
                                   + (IF Has(pre[th[t].m], th[t].key) THEN 0 ELSE 1)

\* Keys has returned every key of a full table.
KeysOfFullTable ==
    \E t \in Threads :
        /\ th[t].op = "Keys" /\ Returning(t)
        /\ Len(th[t].out) = MaxKey

----------------------------------------------------------------------------
\* More on the two goroutines calling every method (Spec).

\* The read locks of ValueMap i that goroutine t has taken and not yet released,
\* by the position of t in its call.
RHeld(t, i) ==
    (IF \/ th[t].op \in ReaderOps /\ th[t].m = i /\ th[t].pc \in Inside
        \/ th[t].op = "Merge" /\ th[t].other = i
        \/ th[t].op = "Equal" /\ th[t].m = i
     THEN 1 ELSE 0)
    + (IF th[t].op = "Equal" /\ th[t].other = i /\ th[t].pc \in Inside THEN 1 ELSE 0)

RECURSIVE RHeldBy(_, _)
RHeldBy(ts, i) ==
    IF ts = {} THEN 0
    ELSE LET t == CHOOSE x \in ts : TRUE IN RHeld(t, i) + RHeldBy(ts \ {t}, i)

\* Goroutine t has called Lock on ValueMap i and not yet Unlock.
WHeld(t, i) ==
    /\ th[t].m = i
    /\ \/ th[t].op \in WriterOps /\ th[t].pc \in {"wait", "body", "unlock"}
       \/ th[t].op = "Merge" /\ th[t].pc \in {"wait", "body", "loop"}

\* C16: every RWMutex counts exactly the read locks the calls in progress have
\* taken and not released, and has a writer exactly when a call in progress has
\* called Lock and not Unlock; so with no call in progress every RWMutex has no
\* reader and no writer, and the number of readers is never negative.
LocksBalanced ==
    /\ \A i \in Inst :
        /\ mu[i].r = RHeldBy(Threads, i)
        /\ mu[i].r >= 0
        /\ \A t \in Threads : mu[i].w = t <=> WHeld(t, i)
    /\ (\A t \in Threads : Idle(t)) => \A i \in Inst : mu[i] = Mutex0

\* Equal is returning false, having left its loop early, and has released the
\* read lock of other; the read lock of its receiver is the only lock held.
EqualFalseReleased ==
    \E t \in Threads :
        /\ At(t, "Equal", "unlock2") /\ ~th[t].eq
        /\ th[t].m # th[t].other
        /\ MapLen(Tbl(th[t].m)) = MapLen(Tbl(th[t].other))
        /\ mu[th[t].other] = Mutex0
        /\ mu[th[t].m] = [r |-> 1, w |-> 0]

\* C17: when a.Equal(b) has its result, under both read locks, the result is
\* the comparison of the two tables as they are at that instant, and no Set,
\* Delete, Clear or Merge is writing either of them.
EqualNoTear ==
    \A t \in Threads :
        At(t, "Equal", "unlock")
        => /\ th[t].eq <=> Tbl(th[t].m) = Tbl(th[t].other)
           /\ \A u \in Threads \ {t} : ~Writes(u, th[t].m) /\ ~Writes(u, th[t].other)

\* Equal has found two tables equal while the other goroutine waits to write one of them.
EqualBesideWriter ==
    /\ At(2, "Equal", "unlock") /\ th[2].eq
    /\ th[2].m # th[2].other
    /\ Tbl(th[2].m) # EmptyMap
    /\ th[1].pc = "wait" /\ th[1].m \in {th[2].m, th[2].other}

----------------------------------------------------------------------------
\* valuemap.go: goroutines 1 and 2 call the reading methods and goroutine 3
\* calls Set, all on one ValueMap and all passing the same RWMutex.

InitReaders == InitProg(1) /\ InitObs

NextReaders ==
    \/ \E t \in {1, 2} :
        \/ \E k \in Keys : GetMuRLockOn(t, 1, 1, k) /\ UNCHANGED <<own, observers>>
        \/ GetMuLoad(t) /\ UNCHANGED <<own, observers>>
        \/ GetMuRUnlock(t) /\ UNCHANGED <<own, observers>>
        \/ CloneMuLockOn(t, 1, 1) /\ UNCHANGED <<own, observers>>
        \/ CloneMuLocked(t) /\ UNCHANGED <<own, observers>>
        \/ CloneMuMake(t) /\ UNCHANGED <<own, observers>>
        \/ CloneMuCopy(t) /\ UNCHANGED <<own, observers>>
        \/ CloneMuReturn(t) /\ UNCHANGED <<own, observers>>
        \/ CloneMuUnlockDrop(t) /\ UNCHANGED <<own, observers>>
        \/ KeysMuRLockOn(t, 1, 1) /\ UNCHANGED <<own, observers>>
        \/ KeysMuMake(t) /\ UNCHANGED <<own, observers>>
        \/ KeysMuAppend(t) /\ UNCHANGED <<own, observers>>
        \/ KeysMuRUnlock(t) /\ UNCHANGED <<own, observers>>
        \/ ValuesMuRLockOn(t, 1, 1) /\ UNCHANGED <<own, observers>>
        \/ ValuesMuMake(t) /\ UNCHANGED <<own, observers>>
        \/ ValuesMuAppend(t) /\ UNCHANGED <<own, observers>>
        \/ ValuesMuRUnlock(t) /\ UNCHANGED <<own, observers>>
        \/ LenMuRLockOn(t, 1, 1) /\ UNCHANGED <<own, observers>>
        \/ LenMuRead(t) /\ UNCHANGED <<own, observers>>
        \/ LenMuRUnlock(t) /\ UNCHANGED <<own, observers>>
        \/ RawMuRLockOn(t, 1, 1) /\ UNCHANGED <<own, observers>>
        \/ RawMuMake(t) /\ UNCHANGED <<own, observers>>
        \/ RawMuCopy(t) /\ UNCHANGED <<own, observers>>
        \/ RawMuRUnlock(t) /\ UNCHANGED <<own, observers>>
    \/ \E t \in {3} :
        \/ \E k \in Keys, v \in Vals : SetMuLockOn(t, 1, 1, k, v) /\ UNCHANGED <<own, observers>>
        \/ SetMuLocked(t) /\ UNCHANGED <<own, observers>>
        \/ SetMuStore(t) /\ UNCHANGED <<own, observers>>
        \/ SetMuUnlock(t) /\ UNCHANGED <<own, observers>>

SpecReaders == InitReaders /\ [][NextReaders]_vars

MuReaders == {"GetMu", "CloneMu", "KeysMu", "ValuesMu", "LenMu", "RawMu"}

\* C13: readers that pass the same RWMutex do not exclude each other: while Get,
\* Clone, Keys, Values, Len or Raw is in its critical section, and no other call
\* is in progress, a Get with the same RWMutex by another goroutine enters at once.
ReadersShareMu ==
    \A t \in Threads : \A u \in Threads \ {t} :
        (/\ th[t].op \in MuReaders /\ th[t].pc \in Inside
         /\ \A w \in Threads \ {t} : Idle(w))
        => ENABLED GetMuRLockOn(u, th[t].g, th[t].m, 1)

----------------------------------------------------------------------------
\* valuemap.go: two goroutines call Merge, Set, Delete and Clear on two
\* ValueMaps, every call passing the same RWMutex.

InitSameGuard == InitProg(2) /\ InitObs

NextSameGuard ==
    \E t \in {1, 2} :
        \/ \E m \in Live, other \in Live : MergeMuLockOn(t, 1, m, other) /\ UNCHANGED <<own, observers>>
        \/ MergeMuLocked(t) /\ UNCHANGED <<own, observers>>
        \/ MergeMuRange(t) /\ UNCHANGED <<own, observers>>
        \/ MergeMuCopy(t) /\ UNCHANGED <<own, observers>>
        \/ MergeMuUnlock(t) /\ UNCHANGED <<own, observers>>
        \/ \E m \in Live, k \in Keys, v \in Vals : SetMuLockOn(t, 1, m, k, v) /\ UNCHANGED <<own, observers>>
        \/ SetMuLocked(t) /\ UNCHANGED <<own, observers>>
        \/ SetMuStore(t) /\ UNCHANGED <<own, observers>>
        \/ SetMuUnlock(t) /\ UNCHANGED <<own, observers>>
        \/ \E m \in Live, k \in Keys : DeleteMuLockOn(t, 1, m, k) /\ UNCHANGED <<own, observers>>
        \/ DeleteMuLocked(t) /\ UNCHANGED <<own, observers>>
        \/ DeleteMuKey(t) /\ UNCHANGED <<own, observers>>
        \/ DeleteMuUnlock(t) /\ UNCHANGED <<own, observers>>
        \/ \E m \in Live : ClearMuLockOn(t, 1, m) /\ UNCHANGED <<own, observers>>
        \/ ClearMuLocked(t) /\ UNCHANGED <<own, observers>>
        \/ ClearMuMake(t) /\ UNCHANGED <<own, observers>>
        \/ ClearMuUnlock(t) /\ UNCHANGED <<own, observers>>

SpecSameGuard == InitSameGuard /\ [][NextSameGuard]_vars

\* While Merge is in its critical section no other goroutine is in a critical
\* section on its receiver or on its argument; some call in progress can always
\* take a step; the RWMutex passed is the only one ever locked, and it is free
\* when no call is in progress.
MergeMuAlone ==
    /\ \A t \in Threads :
        (th[t].op = "MergeMu" /\ th[t].pc \in Inside)
        => \A u \in Threads \ {t} : \A i \in {th[t].m, th[t].other} :
               ~WritesMu(u, i) /\ ~ReadsMu(u, i)
    /\ Running
    /\ (\E t \in Threads : ~Idle(t)) => \E t \in Threads : ~Idle(t) /\ ENABLED StepMu(t)
    /\ \A g \in Inst \ {1} : mu[g] = Mutex0
    /\ (\A t \in Threads : Idle(t)) => mu[1] = Mutex0

\* The table Merge copies from changes only by the Merge itself (m.Merge(mu, m)).
MergeMuStable ==
    \A t \in Threads :
        (th[t].op = "MergeMu" /\ th[t].pc \in Inside /\ th'[t].pc \in Inside
           /\ th[t].m # th[t].other)
        => heap'[data'[th[t].other]] = Tbl(th[t].other)

\* C14: with one RWMutex passed to every call, a.Merge(mu, b) keeps every other
\* call out of a and b until it returns and copies from a b that does not
\* change; crossed Merge calls both return; Merge locks nothing but mu.
MergeMuAtomic == []MergeMuAlone /\ [][MergeMuStable]_vars

\* a.Merge(mu, b) is half way through a full b that differs from a.
MergeMuHalfWay ==
    \E t \in Threads :
        /\ At(t, "MergeMu", "loop") /\ th[t].m # th[t].other
        /\ th[t].it # {} /\ th[t].it # DOMAIN Tbl(th[t].other)
        /\ MapLen(Tbl(th[t].other)) = MaxKey
        /\ Tbl(th[t].m) # Tbl(th[t].other)

----------------------------------------------------------------------------
\* valuemap.go: ValueMaps a and b; goroutine 1 calls a.Merge(mu, b) and
\* b.Get(mu, k), goroutine 2 calls b.Set(mu, k, v), each call passing whichever
\* RWMutex the caller picks.

InitMismatch == InitProg(2) /\ InitObs

NextMismatch ==
    \/ \E g \in Guards, k \in Keys, v \in Vals :
           SetMuLockOn(2, g, 2, k, v) /\ UNCHANGED <<own, observers>>
    \/ SetMuLocked(2) /\ UNCHANGED <<own, observers>>
    \/ SetMuStore(2) /\ UNCHANGED <<own, observers>>
    \/ SetMuUnlock(2) /\ UNCHANGED <<own, observers>>
    \/ \E g \in Guards, k \in Keys :
           GetMuRLockOn(1, g, 2, k) /\ UNCHANGED <<own, observers>>
    \/ GetMuLoad(1) /\ UNCHANGED <<own, observers>>
    \/ GetMuRUnlock(1) /\ UNCHANGED <<own, observers>>
    \/ \E g \in Guards : MergeMuLockOn(1, g, 1, 2) /\ UNCHANGED <<own, observers>>
    \/ MergeMuLocked(1) /\ UNCHANGED <<own, observers>>
    \/ MergeMuRange(1) /\ UNCHANGED <<own, observers>>
    \/ MergeMuCopy(1) /\ UNCHANGED <<own, observers>>
    \/ MergeMuUnlock(1) /\ UNCHANGED <<own, observers>>
    \/ \E t \in {1, 2} : RaceFatal(t) /\ UNCHANGED <<own, observers>>

SpecMismatch == InitMismatch /\ [][NextMismatch]_vars

\* C15: no method looks at which RWMutex guards a ValueMap.  Two goroutines are
\* in critical sections on one table, one of them writing it, only when they
\* passed different RWMutexes, and only then can the runtime stop the program;
\* a call is never held back by a call that passed another RWMutex.
RaceNeedsMismatch ==
    /\ \A t \in Threads : \A u \in Threads \ {t} : \A i \in Inst :
        (WritesMu(t, i) /\ (ReadsMu(u, i) \/ WritesMu(u, i))) => th[t].g # th[u].g
    /\ ~Running => \E t \in Threads : \E u \in Threads \ {t} :
                      th[t].g # 0 /\ th[u].g # 0 /\ th[t].g # th[u].g
    /\ \A t \in Threads : \A g \in Guards :
        (Running /\ Idle(t) /\ \A u \in Threads : th[u].g # g)
        => ENABLED SetMuLockOn(t, g, 2, 1, 0)

\* a.Merge(muA, b) is copying from b while b.Set(muB, ...) is about to store.
RaceMergeSet ==
    \E t \in Threads : \E u \in Threads \ {t} :
        /\ At(t, "MergeMu", "loop") /\ th[t].it # {} /\ th[t].m # th[t].other
        /\ At(u, "SetMu", "body") /\ th[u].m = th[t].other
        /\ th[t].g # th[u].g
        /\ Running

====
